---- MODULE Spec2Model ----
(***************************************************************************)
(* gobject-list: an LD_PRELOAD library tracking the lifetime of GObjects   *)
(* and GstMiniObjects (src/gobject-list.c).                                *)
(*                                                                         *)
(* The model is the state machine of the library inside a host process:    *)
(* host threads call the interposed entry points that create and destroy   *)
(* objects (g_object_new, gst_buffer_new*, gst_mini_object_unref), the     *)
(* host framework runs the finalization notifier (_object_finalized) when  *)
(* a reference count reaches zero, and the operating system delivers       *)
(* signals to arbitrary threads, whose handlers (_sig_usr1_handler,        *)
(* _sig_usr2_handler, _sig_bad_handler) run on top of whatever the         *)
(* interrupted thread was doing.                                           *)
(***************************************************************************)
EXTENDS Integers, Sequences, FiniteSets, TLC

(* ------------------------------ bounds -------------------------------- *)
NumThreads == 2     \* host threads
NumAddrs == 2       \* heap addresses an object can live at (identities)
MaxCalls == 3       \* interposed calls the host makes in one run
MaxSignals == 2     \* signals delivered in one run

Threads == 1..NumThreads
Addrs == 1..NumAddrs

(* ------------------------- program constants -------------------------- *)
NoThread == 0                       \* G_LOCK_DEFINE_STATIC: the lock is free
DISPLAY_FLAG_CREATE == 1
DISPLAY_FLAG_REFS == 4
DISPLAY_FLAG_BACKTRACE == 8

\* A bit mask is the set of its bits; | is union, & is intersection.
DISPLAY_FLAG_NONE == {}
DISPLAY_FLAG_ALL ==
    {DISPLAY_FLAG_CREATE, DISPLAY_FLAG_REFS, DISPLAY_FLAG_BACKTRACE}
DISPLAY_FLAG_DEFAULT == {DISPLAY_FLAG_CREATE}

display_flags_map ==
    << [name |-> "none", flag |-> DISPLAY_FLAG_NONE],
       [name |-> "create", flag |-> {DISPLAY_FLAG_CREATE}],
       [name |-> "refs", flag |-> {DISPLAY_FLAG_REFS}],
       [name |-> "backtrace", flag |-> {DISPLAY_FLAG_BACKTRACE}],
       [name |-> "all", flag |-> DISPLAY_FLAG_ALL] >>

\* Type names are sequences of characters, so that a prefix can be compared.
NullName == << >>                   \* a NULL string
Foo == <<"F", "o", "o">>
GstBuffer == <<"G", "s", "t">>
GTypes == {Foo}                     \* the GObject types the host instantiates

\* The environment: g_getenv returns NULL (set = FALSE) or the value.
Unset == [set |-> FALSE, val |-> << >>]
EnvVal(v) == [set |-> TRUE, val |-> v]
\* GOBJECT_LIST_DISPLAY, as the token vector g_strsplit (display, ",", 0) gives
DisplayEnvs == {Unset, EnvVal(<<"refs">>)}
\* GOBJECT_LIST_FILTER
FilterEnvs == {Unset, EnvVal(<<"F">>)}
\* The environments a run starts in: << GOBJECT_LIST_DISPLAY,
\* GOBJECT_LIST_FILTER >>, each value of each variable in one of them.
Environments == { << Unset, Unset >>, << EnvVal(<<"refs">>), EnvVal(<<"F">>) >> }

\* Signals the library installs a handler for (get_func).
TermSigs == {"SIGINT", "SIGTERM", "SIGABRT", "SIGSEGV"}
Sigs == {"SIGUSR1", "SIGUSR2"} \cup TermSigs
\* The signals the environment sends in a run: the two dump triggers and
\* one terminating signal (the four terminating signals share one handler).
SentSigs == {"SIGUSR1", "SIGUSR2", "SIGTERM"}

VARIABLES
    displayEnv,     \* value of GOBJECT_LIST_DISPLAY
    filterEnv,      \* value of GOBJECT_LIST_FILTER
    heap,           \* the host's objects: address -> kind, type, ref count, notifiers
    gobject_list,   \* owner of the registry lock, NoThread when free
    handle,         \* get_func's static handle is set (initialization done)
    tables,         \* the three hash tables exist (are not NULL)
    objects,        \* gobject_list_state.objects: the Live Set
    added,          \* gobject_list_state.added: the Added-Delta
    removed,        \* gobject_list_state.removed: address -> captured type name
    disp,           \* signal dispositions: "dfl" or the installed handler
    brk,            \* the host allocator: addresses above it were never used
    stack,          \* per thread: the frames it is executing, innermost last
    terminated,     \* the process is gone
    calls,          \* interposed calls made so far
    signals,        \* signals delivered so far
    born,           \* history: tracked objects created since the last checkpoint
    liveAtCkpt,     \* history: the Live Set when the last checkpoint completed,
                    \*   each identity with the type name it was created with
    ckptDone,       \* history: a checkpoint has completed
    dirty,          \* history: a create/finalize event since the last checkpoint
    ckpt,           \* what the running checkpoint has printed so far
    freed,          \* history: the addresses the host has freed an object at
    output_mutex,   \* owner of the output lock, NoThread when free
    parsed,         \* display_filter's static parsed
    display_flags,  \* display_filter's static display_flags
    answers         \* history: what display_filter has returned for a category

vars == << displayEnv, filterEnv, heap, gobject_list, handle, tables, objects,
           added, removed, disp, brk, stack, terminated, calls, signals,
           born, liveAtCkpt, ckptDone, dirty, ckpt, freed, output_mutex,
           parsed, display_flags, answers >>

regVars == << objects, added, removed >>
\* all the variables display_filter does not touch
trackerVars == << filterEnv, heap, gobject_list, handle, tables, objects, added,
                  removed, disp, brk, stack, terminated, calls, signals, born,
                  liveAtCkpt, ckptDone, dirty, ckpt, freed, output_mutex >>
envVars == << displayEnv, filterEnv >>
histVars == << born, liveAtCkpt, ckptDone, dirty, ckpt >>
memoVars == << parsed, display_flags, answers >>

(* ------------------------------ helpers ------------------------------- *)
FreeCell == [kind |-> "free", type |-> NullName, rc |-> 0, weak |-> 0]
NoReport ==
    [listed |-> {}, skipped |-> {}, size |-> 0, removed |-> << >>, read |-> {}]

\* A frame: the function, where it is, the object it works on, the signal
\* it handles, and where it goes on after its trace line ("printed": the
\* line of this block is out).
Frame(op, pc, obj, sig) ==
    [op |-> op, pc |-> pc, obj |-> obj, sig |-> sig, ret |-> "none"]
Busy(t) == stack[t] # << >>
Top(t) == stack[t][Len(stack[t])]
SetTop(t, f) == [stack EXCEPT ![t] = [@ EXCEPT ![Len(@)] = f]]
SetPc(t, pc) == SetTop(t, [Top(t) EXCEPT !.pc = pc])
Pop(t) == [stack EXCEPT ![t] = SubSeq(@, 1, Len(@) - 1)]
Push(t, f) == [stack EXCEPT ![t] = Append(@, f)]
At(t, ops, pc) == Busy(t) /\ Top(t).op \in ops /\ Top(t).pc = pc

IsPrefix(p, s) == Len(p) <= Len(s) /\ SubSeq(s, 1, Len(p)) = p

(* ----------------------------- the filters ---------------------------- *)
\* g_ascii_strcasecmp (token, name) = 0, for the spellings the model uses
AsciiLower(tok) ==
    CASE tok = "REFS" -> "refs"
      [] tok = "Create" -> "create"
      [] tok = "ALL" -> "all"
      [] OTHER -> tok

\* The inner loop of display_filter: the flag of the first map item whose
\* name matches the token, nothing for an unrecognized token.
RECURSIVE TokenFlag(_, _)
TokenFlag(token, j) ==
    IF j > Len(display_flags_map) THEN {}
    ELSE IF AsciiLower(token) = display_flags_map[j].name
         THEN display_flags_map[j].flag
         ELSE TokenFlag(token, j + 1)

RECURSIVE OrTokens(_, _, _)
OrTokens(tokens, i, flags) ==
    IF i > Len(tokens) THEN flags
    ELSE OrTokens(tokens, i + 1, flags \cup TokenFlag(tokens[i], 1))

\* display_flags after the parse of display_filter
ParseDisplay(display) ==
    IF ~display.set THEN DISPLAY_FLAG_DEFAULT
    ELSE OrTokens(display.val, 1,
                  IF Len(display.val) > 0 THEN {} ELSE DISPLAY_FLAG_DEFAULT)

display_filter(flags) == (ParseDisplay(displayEnv) \cap flags) # {}

\* Fault variant of object_filter: the function goes on to its test of the
\* filter.
object_filter_tested(obj_name) ==
    LET filter == filterEnv
    IN  IF ~filter.set THEN TRUE ELSE IsPrefix(filter.val, obj_name)

\* object_filter: the function returns FALSE before it looks at the filter.
object_filter(obj_name) ==
    LET filter == filterEnv
    IN  FALSE

(* --------------------------- hash table calls ------------------------- *)
\* Each GLib call returns at once (g_return_if_fail) on a NULL table.
HashInsert(hash, key) == IF tables THEN hash \cup {key} ELSE hash
HashRemove(hash, key) == IF tables THEN hash \ {key} ELSE hash
HashLookup(hash, key) == tables /\ key \in hash
MapInsert(map, key, value) ==
    IF tables
    THEN [k \in (DOMAIN map) \cup {key} |-> IF k = key THEN value ELSE map[k]]
    ELSE map

\* G_OBJECT_TYPE_NAME (obj): the type name of a GObject; on a GstMiniObject
\* the macro reads the GType field as a class pointer, and what comes back
\* is not defined: any outcome.
ObjectTypeNames(a) ==
    IF heap[a].kind = "gobject" THEN {heap[a].type} ELSE {NullName, GstBuffer}

\* _dump_object_list: the entries printed, the entries skipped (ref_count
\* 0) and the count printed after them.
DumpListed(hash) == {a \in hash : heap[a].rc # 0}
DumpSkipped(hash) == {a \in hash : heap[a].rc = 0}
DumpSize(hash) == Cardinality(hash)

(* -------------------------------- Init -------------------------------- *)
\* Everything but the environment, before the first intercepted call.
Loaded ==
    /\ heap = [a \in Addrs |-> FreeCell]
    /\ gobject_list = NoThread
    /\ handle = FALSE
    /\ tables = FALSE
    /\ objects = {}
    /\ added = {}
    /\ removed = << >>
    /\ disp = [s \in Sigs |-> "dfl"]
    /\ brk = 0
    /\ stack = [t \in Threads |-> << >>]
    /\ terminated = FALSE
    /\ calls = 0
    /\ signals = 0
    /\ born = {}
    /\ liveAtCkpt = << >>
    /\ ckptDone = FALSE
    /\ dirty = FALSE
    /\ ckpt = NoReport
    /\ freed = {}
    /\ output_mutex = NoThread
    /\ parsed = FALSE
    /\ display_flags = DISPLAY_FLAG_DEFAULT
    /\ answers = {}

Init ==
    /\ \E env \in Environments : displayEnv = env[1] /\ filterEnv = env[2]
    /\ Loaded

\* The process ends: its memory, its threads and its environment are gone.
Terminate ==
    /\ terminated' = TRUE
    /\ displayEnv' = Unset /\ filterEnv' = Unset
    /\ heap' = [a \in Addrs |-> FreeCell]
    /\ gobject_list' = NoThread
    /\ handle' = FALSE /\ tables' = FALSE
    /\ objects' = {} /\ added' = {} /\ removed' = << >>
    /\ disp' = [s \in Sigs |-> "dfl"]
    /\ brk' = 0
    /\ stack' = [t \in Threads |-> << >>]
    /\ calls' = 0 /\ signals' = 0
    /\ born' = {} /\ liveAtCkpt' = << >>
    /\ ckptDone' = FALSE /\ dirty' = FALSE /\ ckpt' = NoReport
    /\ freed' = {}
    /\ output_mutex' = NoThread
    /\ parsed' = FALSE /\ display_flags' = DISPLAY_FLAG_DEFAULT /\ answers' = {}

(* ----------------------------- host calls ----------------------------- *)
\* Threads that are in no interposed call and no handler carry no state of
\* their own: the lowest of them stands for all of them.
Idle(t) == ~Busy(t) /\ \A u \in Threads : u < t => Busy(u)

\* The addresses at which the step frees an object.
NowFree == {a \in Addrs : heap[a].kind # "free" /\ heap'[a].kind = "free"}

\* The host allocator gives out an address that was freed, or the first
\* address never used so far (never-used addresses are all alike).
CanAllocate(a) == heap[a].kind = "free" /\ a <= brk + 1
Allocated(a) == IF a > brk THEN a ELSE brk

\* The frame of the interposed call thread t is in (handlers run above it).
CreateOps == {"new", "buf_new", "mini_init"}
\* Object a is still inside its creation hook: the host has not got it yet.
Creating(a) ==
    \E t \in Threads :
        Busy(t) /\ stack[t][1].op \in CreateOps /\ stack[t][1].obj = a

\* A host thread enters g_object_new. The object real_g_object_new_valist
\* makes (one reference, no notifier) is bound here: the allocation touches
\* nothing but the new object, which no other thread can name before the hook
\* returns.
CallGObjectNew(t) ==
    /\ ~terminated /\ Idle(t) /\ calls < MaxCalls
    /\ \E a \in Addrs, ty \in GTypes :
          /\ CanAllocate(a)
          /\ brk' = Allocated(a)
          /\ heap' = [heap EXCEPT ![a] =
                        [kind |-> "gobject", type |-> ty, rc |-> 1, weak |-> 0]]
          /\ stack' = Push(t, Frame("new", "gf_lock", a, "none"))
    /\ calls' = calls + 1
    /\ UNCHANGED << envVars, memoVars, output_mutex, gobject_list, handle, tables, regVars, disp,
                    terminated, signals, histVars, freed >>

\* A host thread enters gst_buffer_new, gst_buffer_new_allocate or
\* gst_buffer_new_wrapped_full: get_gst_func and the real function give a
\* GstBuffer with one reference, and new_mini_object is about to lock.
CallBufferNew(t) ==
    /\ ~terminated /\ Idle(t) /\ calls < MaxCalls
    /\ \E a \in Addrs :
          /\ CanAllocate(a)
          /\ brk' = Allocated(a)
          /\ heap' = [heap EXCEPT ![a] =
                [kind |-> "mini", type |-> GstBuffer, rc |-> 1, weak |-> 0]]
          /\ stack' = Push(t, Frame("buf_new", "lock", a, "none"))
    /\ calls' = calls + 1
    /\ UNCHANGED << envVars, memoVars, output_mutex, gobject_list, handle, tables, regVars, disp,
                    terminated, signals, histVars, freed >>

\* A host thread enters gst_buffer_new_allocate in a process where the
\* calls the GStreamer library makes to its own exported functions are
\* resolved through the dynamic linker, like the host's: the real function
\* makes the buffer with gst_buffer_new, which is the hook again. The hook
\* of gst_buffer_new runs new_mini_object on the buffer and returns, then
\* the hook of gst_buffer_new_allocate runs new_mini_object on the same
\* buffer.
CallBufferNewAllocate(t) ==
    /\ ~terminated /\ Idle(t) /\ calls < MaxCalls
    /\ \E a \in Addrs :
          /\ CanAllocate(a)
          /\ brk' = Allocated(a)
          /\ heap' = [heap EXCEPT ![a] =
                [kind |-> "mini", type |-> GstBuffer, rc |-> 1, weak |-> 0]]
          /\ stack' = [stack EXCEPT ![t] =
                          << Frame("buf_new", "lock", a, "none"),
                             Frame("buf_new", "lock", a, "none") >>]
    /\ calls' = calls + 1
    /\ UNCHANGED << envVars, memoVars, output_mutex, gobject_list, handle,
                    tables, regVars, disp, terminated, signals, histVars, freed >>

\* The condition of the trace line of the ref and unref hooks.
RefTraced(obj_name) ==
    object_filter(obj_name) /\ display_filter({DISPLAY_FLAG_REFS})

\* The threads inside an unref hook for object a that have not reached the
\* real function yet: the references they give up are still counted.
Droppers(a) ==
    {t \in Threads : \E i \in 1..Len(stack[t]) :
        /\ stack[t][i].op \in {"unref", "mini_unref"} /\ stack[t][i].obj = a
        /\ \/ stack[t][i].pc \in {"gf_lock", "gf_once", "gf_tables", "hook"}
           \/ stack[t][i].ret = "hook"}
\* The host holds a reference of object a that no thread is giving up.
Held(a) ==
    /\ heap[a].kind # "free" /\ ~Creating(a)
    /\ heap[a].rc > Cardinality(Droppers(a))

\* A host thread gives up a reference of a GstMiniObject through
\* gst_mini_object_unref: the trace line is printed only when object_filter
\* answers TRUE; the real function drops the count to zero and the host runs
\* the registered finalization notifier, then frees the object.
CallMiniUnref(t) ==
    /\ ~terminated /\ Idle(t) /\ calls < MaxCalls
    /\ \E a \in Addrs :
          /\ heap[a].kind = "mini" /\ Held(a)
          /\ IF RefTraced(heap[a].type)
             THEN /\ heap' = heap
                  /\ stack' = Push(t, Frame("mini_unref", "hook", a, "none"))
             ELSE IF heap[a].rc > 1
             THEN /\ heap' = [heap EXCEPT ![a].rc = @ - 1]
                  /\ stack' = stack
             ELSE IF heap[a].weak > 0
             THEN /\ heap' = [heap EXCEPT ![a].rc = 0]
                  /\ stack' = Push(t, Frame("mini_unref", "fin_lock", a, "none"))
             ELSE /\ heap' = [heap EXCEPT ![a] = FreeCell]
                  /\ stack' = stack
    /\ calls' = calls + 1
    /\ UNCHANGED << envVars, memoVars, output_mutex, brk, gobject_list, handle, tables, regVars, disp,
                    terminated, signals, histVars >>
    /\ freed' = freed \cup NowFree

\* A host thread enters g_object_ref or g_object_unref on a GObject it
\* holds: get_func comes first.
CallGObjectRef(t) ==
    /\ ~terminated /\ Idle(t) /\ calls < MaxCalls
    /\ \E a \in Addrs, op \in {"ref", "unref"} :
          /\ heap[a].kind = "gobject" /\ Held(a)
          /\ stack' = Push(t, Frame(op, "gf_lock", a, "none"))
    /\ calls' = calls + 1
    /\ UNCHANGED << envVars, memoVars, output_mutex, brk, heap, gobject_list,
                    handle, tables, regVars, disp, terminated, signals,
                    histVars, freed >>

\* A host thread enters gst_mini_object_ref on a GstMiniObject it holds:
\* get_gst_func, then the trace line when the filters ask for it, then the
\* real function.
CallMiniRef(t) ==
    /\ ~terminated /\ Idle(t) /\ calls < MaxCalls
    /\ \E a \in Addrs :
          /\ heap[a].kind = "mini" /\ Held(a)
          /\ IF RefTraced(heap[a].type)
             THEN /\ heap' = heap
                  /\ stack' = Push(t, Frame("mini_ref", "hook", a, "none"))
             ELSE /\ heap' = [heap EXCEPT ![a].rc = @ + 1]
                  /\ stack' = stack
    /\ calls' = calls + 1
    /\ UNCHANGED << envVars, memoVars, output_mutex, brk, gobject_list, handle,
                    tables, regVars, disp, terminated, signals, histVars, freed >>

\* The condition of gst_mini_object_init. The type field it reads is not
\* initialized yet: seen is whatever name the memory happens to give.
MiniInitRecords(seen) ==
    display_filter({DISPLAY_FLAG_CREATE}) /\ object_filter(seen)

\* A host thread enters gst_mini_object_init on memory it has allocated
\* (nothing is initialized yet): the hook starts with a GST_ERROR line,
\* printed whatever the filters say and without any lock.
CallMiniObjectInit(t) ==
    /\ ~terminated /\ Idle(t) /\ calls < MaxCalls
    /\ \E a \in Addrs :
          /\ CanAllocate(a)
          /\ brk' = Allocated(a)
          /\ heap' = [heap EXCEPT ![a] =
                [kind |-> "mini", type |-> GstBuffer, rc |-> 0, weak |-> 0]]
          /\ stack' = Push(t, [Frame("mini_init", "print", a, "none")
                                   EXCEPT !.ret = "hook"])
    /\ calls' = calls + 1
    /\ UNCHANGED << envVars, memoVars, output_mutex, gobject_list, handle,
                    tables, regVars, disp, terminated, signals, histVars, freed >>

(* ------------------------------ get_func ------------------------------ *)
\* The hooks that resolve the real function with get_func.
GetFuncOps == {"new", "ref", "unref"}
\* Where the hook goes on when get_func has returned.
AfterGetFunc(op) == IF op = "new" THEN "lock" ELSE "hook"

\* G_LOCK (gobject_list) at the top of get_func
GetFuncLock(t) ==
    /\ ~terminated /\ At(t, GetFuncOps, "gf_lock")
    /\ gobject_list = NoThread
    /\ gobject_list' = t
    /\ stack' = SetPc(t, "gf_once")
    /\ UNCHANGED << envVars, memoVars, output_mutex, brk, heap, handle, tables, regVars, disp,
                    terminated, calls, signals, histVars, freed >>

\* g_once_init_enter (&handle): on the first call install the signal
\* handlers; afterwards dlsym, G_UNLOCK and return to g_object_new.
GetFuncOnce(t) ==
    /\ ~terminated /\ At(t, GetFuncOps, "gf_once")
    /\ IF handle
       THEN /\ gobject_list' = NoThread
            /\ stack' = SetPc(t, AfterGetFunc(Top(t).op))
            /\ disp' = disp
       ELSE /\ disp' = [s \in Sigs |->
                          IF s = "SIGUSR1" THEN "usr1"
                          ELSE IF s = "SIGUSR2" THEN "usr2" ELSE "bad"]
            /\ stack' = SetPc(t, "gf_tables")
            /\ gobject_list' = gobject_list
    /\ UNCHANGED << envVars, memoVars, output_mutex, brk, heap, handle, tables, regVars,
                    terminated, calls, signals, histVars, freed >>

\* The rest of the once block: create the three tables (and register
\* _exiting with atexit), g_once_init_leave.
GetFuncTables(t) ==
    /\ ~terminated /\ At(t, GetFuncOps, "gf_tables")
    /\ tables' = TRUE
    /\ objects' = {} /\ added' = {} /\ removed' = << >>
    /\ handle' = TRUE
    /\ stack' = SetPc(t, "gf_once")
    /\ UNCHANGED << envVars, memoVars, output_mutex, brk, heap, gobject_list, disp, terminated, calls,
                    signals, histVars, freed >>

(* -------------------- g_object_new, new_mini_object ------------------- *)
\* G_LOCK (gobject_list) in g_object_new and new_mini_object
CreateLock(t) ==
    /\ ~terminated /\ At(t, {"new", "buf_new"}, "lock")
    /\ gobject_list = NoThread
    /\ gobject_list' = t
    /\ stack' = SetPc(t, "body")
    /\ UNCHANGED << envVars, memoVars, output_mutex, brk, heap, handle, tables, regVars, disp,
                    terminated, calls, signals, histVars, freed >>

\* The condition of g_object_new: the object is not yet in the Live Set and
\* its type name passes the name filter.
GObjectNewRecords(a) ==
    ~HashLookup(objects, a) /\ object_filter(heap[a].type)

(* ----------------------------- trace lines ---------------------------- *)
\* The condition under which the block the frame is about to run prints its
\* trace line (GST_ERROR and print_trace).
Traced(f) ==
    CASE f.op = "new" /\ f.pc = "body" ->
             GObjectNewRecords(f.obj) /\ display_filter({DISPLAY_FLAG_CREATE})
      [] f.op = "buf_new" /\ f.pc = "body" ->
             display_filter({DISPLAY_FLAG_CREATE})
                 /\ object_filter(heap[f.obj].type)
      [] f.op = "mini_unref" /\ f.pc = "fin_body" ->
             display_filter({DISPLAY_FLAG_CREATE})
      [] f.op \in {"unref", "mini_unref", "mini_ref"} /\ f.pc = "hook" ->
             RefTraced(heap[f.obj].type)
      [] OTHER -> FALSE

\* The blocks that print between g_mutex_lock (&output_mutex) and
\* g_mutex_unlock (&output_mutex): g_object_new, g_object_ref,
\* g_object_unref and _object_finalized; new_mini_object,
\* gst_mini_object_ref and gst_mini_object_unref print without them.
OutputLocked(f) == f.op \in {"new", "ref", "unref"} \/ f.pc = "fin_body"

\* The frame on top of thread t has its trace line still to print.
MustTrace(t) == Busy(t) /\ Top(t).ret # "printed" /\ Traced(Top(t))

\* The thread reaches the print block.
TraceStart(t) ==
    /\ ~terminated /\ MustTrace(t)
    /\ stack' = SetTop(t, [Top(t) EXCEPT
                    !.pc = IF OutputLocked(Top(t)) THEN "out_lock" ELSE "print",
                    !.ret = Top(t).pc])
    /\ UNCHANGED << envVars, memoVars, output_mutex, brk, heap, gobject_list,
                    handle, tables, regVars, disp, terminated, calls, signals,
                    histVars, freed >>

\* g_mutex_lock (&output_mutex)
OutputLock(t) ==
    /\ ~terminated /\ Busy(t) /\ Top(t).pc = "out_lock"
    /\ output_mutex = NoThread
    /\ output_mutex' = t
    /\ stack' = SetPc(t, "print")
    /\ UNCHANGED << envVars, memoVars, brk, heap, gobject_list, handle, tables,
                    regVars, disp, terminated, calls, signals, histVars, freed >>

\* GST_ERROR (...), print_trace () and, where the block took it,
\* g_mutex_unlock (&output_mutex); the function goes on, or returns when
\* the line was its last statement.
PrintTrace(t) ==
    /\ ~terminated /\ Busy(t) /\ Top(t).pc = "print"
    /\ output_mutex' = IF output_mutex = t THEN NoThread ELSE output_mutex
    /\ stack' = IF Top(t).ret = "return"
                THEN Pop(t)
                ELSE SetTop(t, [Top(t) EXCEPT !.pc = Top(t).ret,
                                              !.ret = "printed"])
    /\ UNCHANGED << envVars, memoVars, brk, heap, gobject_list, handle, tables,
                    regVars, disp, terminated, calls, signals, histVars, freed >>

\* The real function of a ref or unref hook. g_object_ref prints after it,
\* the other hooks before it. An unref that gives up the last reference
\* makes the host run the notifiers (the frame goes on in
\* _object_finalized) and free the object.
HookOps == {"ref", "unref", "mini_ref", "mini_unref"}

HookReal(t) ==
    /\ ~terminated /\ At(t, HookOps, "hook") /\ ~MustTrace(t)
    /\ LET f == Top(t)
           a == Top(t).obj
       IN  IF f.op \in {"ref", "mini_ref"}
           THEN /\ heap' = [heap EXCEPT ![a].rc = @ + 1]
                /\ stack' = IF f.op = "ref" /\ RefTraced(heap[a].type)
                            THEN SetTop(t, [f EXCEPT !.pc = "out_lock",
                                                     !.ret = "return"])
                            ELSE Pop(t)
           ELSE IF heap[a].rc > 1
           THEN /\ heap' = [heap EXCEPT ![a].rc = @ - 1]
                /\ stack' = Pop(t)
           ELSE IF heap[a].weak > 0
           THEN /\ heap' = [heap EXCEPT ![a].rc = 0]
                /\ stack' = SetTop(t, Frame("mini_unref", "fin_lock", a,
                                            "none"))
           ELSE /\ heap' = [heap EXCEPT ![a] = FreeCell]
                /\ stack' = Pop(t)
    /\ UNCHANGED << envVars, memoVars, output_mutex, brk, gobject_list, handle,
                    tables, regVars, disp, terminated, calls, signals,
                    histVars >>
    /\ freed' = freed \cup NowFree

\* The rest of gst_mini_object_init, none of it under a lock: when the
\* condition holds, the trace line, the notifier and the inserts into
\* objects and added; then the real function, which gives the object its
\* one reference.
MiniObjectInitBody(t) ==
    /\ ~terminated /\ At(t, {"mini_init"}, "hook")
    /\ \E seen \in {NullName, GstBuffer} :
         LET a == Top(t).obj
         IN  /\ heap' = [heap EXCEPT
                   ![a].rc = 1,
                   ![a].weak = IF MiniInitRecords(seen) THEN 1 ELSE 0]
             /\ objects' = IF MiniInitRecords(seen)
                           THEN HashInsert(objects, a) ELSE objects
             /\ added' = IF MiniInitRecords(seen)
                         THEN HashInsert(added, a) ELSE added
             /\ born' = IF MiniInitRecords(seen) THEN born \cup {a} ELSE born
             /\ dirty' = (dirty \/ MiniInitRecords(seen))
    /\ stack' = Pop(t)
    /\ UNCHANGED << envVars, memoVars, output_mutex, brk, gobject_list, handle,
                    tables, removed, disp, terminated, calls, signals,
                    liveAtCkpt, ckptDone, ckpt, freed >>

\* The locked body of g_object_new, G_UNLOCK and return: when the condition
\* holds, register the notifier and insert the object into objects and added.
GObjectNewBody(t) ==
    /\ ~terminated /\ At(t, {"new"}, "body") /\ ~MustTrace(t)
    /\ LET a == Top(t).obj
       IN  /\ heap' = IF GObjectNewRecords(a)
                      THEN [heap EXCEPT ![a].weak = @ + 1]
                      ELSE heap
           /\ objects' = IF GObjectNewRecords(a)
                         THEN HashInsert(objects, a) ELSE objects
           /\ added' = IF GObjectNewRecords(a)
                       THEN HashInsert(added, a) ELSE added
           /\ born' = IF GObjectNewRecords(a) THEN born \cup {a} ELSE born
    /\ dirty' = TRUE
    /\ gobject_list' = NoThread
    /\ stack' = Pop(t)
    /\ UNCHANGED << envVars, memoVars, output_mutex, brk, handle, tables, removed, disp,
                    terminated, calls, signals, liveAtCkpt, ckptDone, ckpt, freed >>

\* g_hash_table_insert (gobject_list_state.objects, mini_object, ...)
MiniObjectObjects(a) == HashInsert(objects, a)
\* g_hash_table_insert (gobject_list_state.added, mini_object, ...)
MiniObjectAdded(a) == HashInsert(added, a)

\* The locked body of new_mini_object, G_UNLOCK and return: the trace line
\* depends on the filters; the notifier is registered and the object
\* inserted into objects and added whatever they say.
NewMiniObjectBody(t) ==
    /\ ~terminated /\ At(t, {"buf_new"}, "body") /\ ~MustTrace(t)
    /\ LET a == Top(t).obj
       IN  /\ heap' = [heap EXCEPT ![a].weak = @ + 1]
           /\ objects' = MiniObjectObjects(a)
           /\ added' = MiniObjectAdded(a)
           /\ born' = born \cup {a}
    /\ dirty' = TRUE
    /\ gobject_list' = NoThread
    /\ stack' = Pop(t)
    /\ UNCHANGED << envVars, memoVars, output_mutex, brk, handle, tables, removed, disp,
                    terminated, calls, signals, liveAtCkpt, ckptDone, ckpt, freed >>

(* -------------------------- _object_finalized ------------------------- *)
\* G_LOCK (gobject_list)
FinalizedLock(t) ==
    /\ ~terminated /\ At(t, {"mini_unref"}, "fin_lock")
    /\ gobject_list = NoThread
    /\ gobject_list' = t
    /\ stack' = SetPc(t, "fin_body")
    /\ UNCHANGED << envVars, memoVars, output_mutex, brk, heap, handle, tables, regVars, disp,
                    terminated, calls, signals, histVars, freed >>

\* The Removed-Delta after the display block: only when the creation
\* category is displayed, an object that is not in added is inserted with
\* the type name read from it.
FinalizedRemoved(a, name) ==
    IF display_filter({DISPLAY_FLAG_CREATE}) /\ ~HashLookup(added, a)
    THEN MapInsert(removed, a, name)
    ELSE removed

\* g_hash_table_remove (gobject_list_state.objects, obj)
FinalizedObjects(a) == HashRemove(objects, a)

\* Fault variant of FinalizedAdded: the finalization leaves the entry in added.
FinalizedAddedKept(a) == added

\* g_hash_table_remove (gobject_list_state.added, obj)
FinalizedAdded(a) == HashRemove(added, a)

\* The display block and the removal from objects.
FinalizedBody(t) ==
    /\ ~terminated /\ At(t, {"mini_unref"}, "fin_body") /\ ~MustTrace(t)
    /\ LET a == Top(t).obj
       IN  /\ \E name \in ObjectTypeNames(a) :
                 removed' = FinalizedRemoved(a, name)
           /\ objects' = FinalizedObjects(a)
           /\ born' = born \ {a}
    /\ dirty' = TRUE
    /\ stack' = SetPc(t, "fin_rm_added")
    /\ UNCHANGED << envVars, memoVars, output_mutex, brk, heap, gobject_list, handle, tables, added, disp,
                    terminated, calls, signals, liveAtCkpt, ckptDone, ckpt, freed >>

\* The removal from added, G_UNLOCK and the return to the host, which runs
\* the next notifier or frees the object.
FinalizedDone(t) ==
    /\ ~terminated /\ At(t, {"mini_unref"}, "fin_rm_added")
    /\ LET a == Top(t).obj
       IN  /\ added' = FinalizedAdded(a)
           /\ IF heap[a].weak > 1
              THEN /\ heap' = [heap EXCEPT ![a].weak = @ - 1]
                   /\ stack' = SetTop(t, [Top(t) EXCEPT !.pc = "fin_lock",
                                                        !.ret = "none"])
              ELSE /\ heap' = [heap EXCEPT ![a] = FreeCell]
                   /\ stack' = Pop(t)
    /\ gobject_list' = NoThread
    /\ UNCHANGED << envVars, memoVars, output_mutex, brk, handle, tables, objects, removed, disp,
                    terminated, calls, signals, histVars >>
    /\ freed' = freed \cup NowFree

(* --------------------------- signal handlers -------------------------- *)
HandlerOps == {"usr1", "usr2", "bad"}
\* signal () gives BSD semantics: a signal is blocked while its handler runs.
Blocked(t, sig) == \E i \in 1..Len(stack[t]) : stack[t][i].sig = sig

\* The operating system delivers a signal to a thread that does not block
\* it: the default action ends the process, an installed handler starts on
\* top of what the thread was doing.
Deliver(t, sig) ==
    /\ ~terminated /\ signals < MaxSignals
    /\ Busy(t) \/ Idle(t)
    /\ ~Blocked(t, sig)
    /\ IF disp[sig] = "dfl"
       THEN Terminate
       ELSE /\ signals' = signals + 1
            /\ stack' = Push(t, Frame(disp[sig],
                          IF disp[sig] = "bad" THEN "restore" ELSE "h_lock",
                          0, sig))
            /\ UNCHANGED << envVars, memoVars, output_mutex, brk, heap, gobject_list, handle, tables,
                            regVars, disp, terminated, calls, histVars, freed >>

\* signal (sig_num, SIG_DFL) in _sig_bad_handler
BadRestore(t) ==
    /\ ~terminated /\ At(t, {"bad"}, "restore")
    /\ disp' = [disp EXCEPT ![Top(t).sig] = "dfl"]
    /\ stack' = SetPc(t, "h_lock")
    /\ UNCHANGED << envVars, memoVars, output_mutex, brk, heap, gobject_list, handle, tables, regVars,
                    terminated, calls, signals, histVars, freed >>

\* Fault variant of HandlerLock: the handler does not wait for the lock.
HandlerLockNoWait(t) ==
    /\ ~terminated /\ At(t, HandlerOps, "h_lock")
    /\ gobject_list' = t
    /\ stack' = SetPc(t, "dump")
    /\ UNCHANGED << envVars, memoVars, output_mutex, brk, heap, handle, tables, regVars, disp,
                    terminated, calls, signals, histVars, freed >>

\* G_LOCK (gobject_list) in a handler or in print_still_alive
HandlerLock(t) ==
    /\ ~terminated /\ At(t, HandlerOps, "h_lock")
    /\ gobject_list = NoThread
    /\ gobject_list' = t
    /\ stack' = SetPc(t, "dump")
    /\ UNCHANGED << envVars, memoVars, output_mutex, brk, heap, handle, tables, regVars, disp,
                    terminated, calls, signals, histVars, freed >>

\* Fault variant of DumpedTable: the dump drops the entries it skips.
DumpedTableDropping(hash) == DumpListed(hash)

\* The table after _dump_object_list has gone over it: the loop only reads.
DumpedTable(hash) == hash

\* _sig_usr1_handler: _dump_object_list (gobject_list_state.objects),
\* G_UNLOCK and return to the interrupted code.
Usr1Dump(t) ==
    /\ ~terminated /\ At(t, {"usr1"}, "dump")
    /\ objects' = DumpedTable(objects)
    /\ gobject_list' = NoThread
    /\ stack' = Pop(t)
    /\ UNCHANGED << envVars, memoVars, output_mutex, brk, heap, handle, tables, added, removed, disp,
                    terminated, calls, signals, histVars, freed >>

\* print_still_alive: _dump_object_list (gobject_list_state.objects) and
\* G_UNLOCK; raise (sig_num) is next.
StillAlive(t) ==
    /\ ~terminated /\ At(t, {"bad"}, "dump")
    /\ objects' = DumpedTable(objects)
    /\ gobject_list' = NoThread
    /\ stack' = SetPc(t, "raise")
    /\ UNCHANGED << envVars, memoVars, output_mutex, brk, heap, handle, tables, added, removed, disp,
                    terminated, calls, signals, histVars, freed >>

\* raise (sig_num) at the end of _sig_bad_handler: the signal is blocked in
\* this thread until the handler returns; with the default disposition
\* restored its action ends the process.
BadRaise(t) ==
    /\ ~terminated /\ At(t, {"bad"}, "raise")
    /\ Terminate

\* The objects the loop over gobject_list_state.removed formats with
\* GST_PTR_FORMAT, which reads the object behind the pointer.
DumpRead == IF tables THEN DOMAIN removed ELSE {}

\* _dump_object_list (gobject_list_state.added) and the loop over
\* gobject_list_state.removed in _sig_usr2_handler: what the checkpoint
\* prints.
Usr2Dump(t) ==
    /\ ~terminated /\ At(t, {"usr2"}, "dump")
    /\ ckpt' = [listed |-> DumpListed(added),
                skipped |-> DumpSkipped(added),
                size |-> DumpSize(added),
                removed |-> removed,
                read |-> DumpRead]
    /\ stack' = SetPc(t, "clear")
    /\ UNCHANGED << envVars, memoVars, output_mutex, brk, heap, gobject_list, handle, tables, regVars, disp,
                    terminated, calls, signals, born, liveAtCkpt, ckptDone,
                    dirty, freed >>

\* Fault variant of ClearedAdded: the checkpoint leaves added as it is.
ClearedAddedKept == added

\* g_hash_table_remove_all (gobject_list_state.added)
ClearedAdded == IF tables THEN {} ELSE added
\* g_hash_table_remove_all (gobject_list_state.removed)
ClearedRemoved == IF tables THEN << >> ELSE removed

\* The two g_hash_table_remove_all calls (the new checkpoint), G_UNLOCK
\* and return to the interrupted code.
Usr2Clear(t) ==
    /\ ~terminated /\ At(t, {"usr2"}, "clear")
    /\ added' = ClearedAdded
    /\ removed' = ClearedRemoved
    /\ gobject_list' = NoThread
    /\ stack' = Pop(t)
    /\ born' = {}
    /\ liveAtCkpt' = [a \in objects |-> heap[a].type]
    /\ ckptDone' = TRUE
    /\ dirty' = FALSE
    /\ ckpt' = NoReport
    /\ UNCHANGED << envVars, memoVars, output_mutex, brk, heap, handle, tables, objects, disp,
                    terminated, calls, signals, freed >>

(* ------------------------------- Next --------------------------------- *)
\* The steps of the library's own code on thread t
Step(t) ==
    \/ GetFuncLock(t) \/ GetFuncOnce(t) \/ GetFuncTables(t)
    \/ CreateLock(t) \/ GObjectNewBody(t) \/ NewMiniObjectBody(t)
    \/ FinalizedLock(t) \/ FinalizedBody(t) \/ FinalizedDone(t)
    \/ TraceStart(t) \/ OutputLock(t) \/ PrintTrace(t)
    \/ BadRestore(t) \/ HandlerLock(t)
    \/ Usr1Dump(t) \/ StillAlive(t) \/ BadRaise(t)
    \/ Usr2Dump(t) \/ Usr2Clear(t)

\* What the host and the operating system do to thread t
Environment(t) ==
    \/ CallGObjectNew(t) \/ CallBufferNew(t) \/ CallMiniUnref(t)
    \/ \E sig \in SentSigs : Deliver(t, sig)

Next == \E t \in Threads : Step(t) \/ Environment(t)

Spec == Init /\ [][Next]_vars

\* Every thread that can take a step of the library's code eventually does.
FairSpec == Spec /\ \A t \in Threads : WF_vars(Step(t))

\* The program in a process where the library's own calls are interposed.
NestedNext == Next \/ \E t \in Threads : CallBufferNewAllocate(t)

NestedSpec == Init /\ [][NestedNext]_vars

\* The program with the reference hooks and gst_mini_object_init as well.
HookEnvironment(t) ==
    CallGObjectRef(t) \/ CallMiniRef(t) \/ CallMiniObjectInit(t)

HookNext ==
    \E t \in Threads :
        \/ Step(t) \/ HookReal(t) \/ MiniObjectInitBody(t)
        \/ Environment(t) \/ HookEnvironment(t)

HookSpec == Init /\ [][HookNext]_vars
(* ============================ properties ============================== *)
\* Thread t has a frame of one of the ops at pc, possibly below a handler.
InFrame(t, ops, pc) ==
    \E i \in 1..Len(stack[t]) : stack[t][i].op \in ops /\ stack[t][i].pc = pc
\* Thread t is inside a handler of one of the ops.
InHandler(t, ops) == \E i \in 1..Len(stack[t]) : stack[t][i].op \in ops
\* No handler is running anywhere.
NoHandler == \A t \in Threads : ~InHandler(t, HandlerOps)
\* The objects the host holds: created (the hook has returned), not freed.
HostObjects == {a \in Addrs : heap[a].kind # "free" /\ ~Creating(a)}

\* C1: whenever the registry lock is free, the Live Set is exactly the set
\* of identities whose creation has been observed (the creation hook has
\* returned) and whose finalization has not run yet.
C1_LiveSetExact ==
    (~terminated /\ gobject_list = NoThread) => objects = HostObjects

\* C2: in every state a thread can observe between two critical sections
\* (no finalization is half way through its removals), every identity of
\* the Added-Delta is in the Live Set.
C2_AddedSubsetLive ==
    (\A t \in Threads : ~InFrame(t, {"mini_unref"}, "fin_rm_added"))
        => added \subseteq objects

\* C2 witness: a dump handler has just taken the lock and observes a
\* non-empty Added-Delta, one of whose objects is about to be finalized.
C2_Witness ==
    /\ \E t \in Threads : At(t, {"usr1", "usr2"}, "dump")
    /\ added # {} /\ added \subseteq objects
    /\ \E a \in added : heap[a].rc = 0

\* C3: when a checkpoint has printed its report, every object that was in
\* the Live Set when the previous checkpoint completed and has been
\* finalized since is in the reported Removed-Delta, with the type name it
\* was created with.
C3_FinalizedReportedRemoved ==
    \A t \in Threads :
        (ckptDone /\ InFrame(t, {"usr2"}, "clear")) =>
            \A a \in (DOMAIN liveAtCkpt) \ objects :
                /\ a \in DOMAIN ckpt.removed
                /\ ckpt.removed[a] = liveAtCkpt[a]

\* C4: no step inserts into the Removed-Delta an object that was created
\* since the last checkpoint (a transient object when it is finalized).
C4_TransientNeverRemoved ==
    [][\A a \in Addrs :
          (a \in born /\ a \notin DOMAIN removed) => a \notin DOMAIN removed']_vars

\* C5: a signal handler never waits for the registry lock while the thread
\* it interrupted holds that lock (the wait could never end).
C5_NoHandlerDeadlock ==
    \A t \in Threads : ~(At(t, HandlerOps, "h_lock") /\ gobject_list = t)

\* C6: once a terminating signal has been delivered to a handler, the
\* process eventually terminates.
C6_TerminatingSignalTerminates ==
    (\E t \in Threads : InHandler(t, {"bad"})) ~> terminated
\* C7 as stated: when the checkpoint has printed its report and is about to
\* empty the tables, every entry of the Added-Delta has been listed and the
\* Removed-Delta is the one reported.
C7_EveryRecordedEventListed ==
    \A t \in Threads :
        InFrame(t, {"usr2"}, "clear") =>
            ckpt.listed = added /\ ckpt.removed = removed

\* Thread t takes a step of the frame (one of ops, at pc) on top of its stack.
StepsAt(t, ops, pc) == At(t, ops, pc) /\ stack'[t] # stack[t] /\ ~terminated'

\* C7 amended: the checkpoint reads and empties the delta tables in one
\* atomic step: what it is about to empty is what it has read, every
\* Removed-Delta entry reported, every Added-Delta entry either listed or,
\* its reference count seen as zero, left out of the list and counted; the
\* step that ends the checkpoint leaves both tables empty.
C7_CheckpointAtomic ==
    /\ [](\A t \in Threads :
            InFrame(t, {"usr2"}, "clear") =>
                /\ ckpt.listed \cup ckpt.skipped = added
                /\ ckpt.listed \cap ckpt.skipped = {}
                /\ \A a \in ckpt.skipped : heap[a].rc = 0
                /\ ckpt.size = Cardinality(added)
                /\ ckpt.removed = removed)
    /\ [][\A t \in Threads :
            (StepsAt(t, {"usr2"}, "clear") /\ ~InHandler(t, {"usr2"})')
                => added' = {} /\ removed' = << >>]_vars

\* C7 witness: a checkpoint has read the tables, leaving out an object whose
\* finalization another thread is about to record.
C7_Witness ==
    \E t \in Threads :
        /\ InFrame(t, {"usr2"}, "clear")
        /\ ckpt.skipped # {}
        /\ \E u \in Threads \ {t} : InFrame(u, {"mini_unref"}, "fin_lock")

\* C8: as long as no create or finalize event has happened since the last
\* checkpoint, both delta tables are empty, a second checkpoint reports two
\* empty sets, and the Live Set is the one the last checkpoint left.
C8_IdleCheckpointEmpty ==
    (ckptDone /\ ~dirty) =>
        /\ added = {} /\ removed = << >>
        /\ objects = DOMAIN liveAtCkpt
        /\ \A t \in Threads :
              InFrame(t, {"usr2"}, "clear") =>
                  /\ ckpt.listed = {} /\ ckpt.skipped = {} /\ ckpt.size = 0
                  /\ ckpt.removed = << >>

\* C8 witness: a second checkpoint has printed its report, no event since
\* the first one, and the Live Set is not empty.
C8_Witness ==
    /\ ckptDone /\ ~dirty /\ objects # {}
    /\ \E t \in Threads : InFrame(t, {"usr2"}, "clear")

\* C9: a step of the live dump or of the still-alive dump leaves the three
\* tables as they are; an entry leaves the Live Set only in the
\* finalization of its object; an entry leaves the Removed-Delta only when
\* a checkpoint empties it, and the Added-Delta only then or in the
\* finalization of its object.
C9_DumpsLeaveTables ==
    [][/\ \A t \in Threads :
             StepsAt(t, {"usr1", "bad"}, "dump") => UNCHANGED regVars
       /\ ~terminated' =>
             /\ \A a \in objects \ objects' :
                   \E t \in Threads :
                       StepsAt(t, {"mini_unref"}, "fin_body") /\ Top(t).obj = a
             /\ \A a \in added \ added' :
                   \E t \in Threads :
                       \/ StepsAt(t, {"usr2"}, "clear")
                       \/ StepsAt(t, {"mini_unref"}, "fin_rm_added")
                            /\ Top(t).obj = a
             /\ \A a \in (DOMAIN removed) \ (DOMAIN removed') :
                   \E t \in Threads : StepsAt(t, {"usr2"}, "clear")]_vars

\* C9 witness: live dumps have run (no checkpoint yet, no handler left)
\* over a Live Set holding an object whose reference count is zero.
C9_Witness ==
    /\ ~terminated /\ signals > 0 /\ ~ckptDone /\ NoHandler
    /\ \E a \in objects : heap[a].rc = 0

\* What the Name Filter is to answer for a type name.
NameFilterAnswer(obj_name) ==
    IF filterEnv.set THEN IsPrefix(filterEnv.val, obj_name) ELSE TRUE

\* C10: whenever g_object_new consults the Name Filter, it answers TRUE when
\* no prefix is configured and otherwise exactly for the type names starting
\* with the prefix; with no prefix configured, every object g_object_new has
\* returned is in the Live Set.
C10_NameFilter ==
    /\ \A t \in Threads :
          At(t, {"new"}, "body") =>
              (object_filter(heap[Top(t).obj].type)
                  <=> NameFilterAnswer(heap[Top(t).obj].type))
    /\ (~terminated /\ ~filterEnv.set) =>
          \A a \in HostObjects : heap[a].kind = "gobject" => a \in objects
(* ============ display_filter alone: the parse of the list ============= *)
MaxTokens == 2      \* tokens in GOBJECT_LIST_DISPLAY

\* The tokens tried: the five names, one spelled in capitals, one unknown.
Tokens == {"none", "create", "refs", "backtrace", "all", "REFS", "foo"}
TokenLists == UNION {[1..n -> Tokens] : n \in 0..MaxTokens}
ParseInputs == {Unset} \cup {EnvVal(l) : l \in TokenLists}

ParseInit ==
    /\ displayEnv \in ParseInputs
    /\ filterEnv = Unset
    /\ Loaded

\* The first call of display_filter, alone: the parse and parsed = TRUE.
ParseOnce ==
    /\ ~parsed
    /\ display_flags' = ParseDisplay(displayEnv)
    /\ parsed' = TRUE
    /\ UNCHANGED << displayEnv, answers, trackerVars >>

ParseNext == ParseOnce

ParseSpec == ParseInit /\ [][ParseNext]_vars

\* The token is one of the names of display_flags_map, in any case.
Recognized(token) ==
    \E j \in 1..Len(display_flags_map) :
        AsciiLower(token) = display_flags_map[j].name
RemoveAt(tokens, i) ==
    SubSeq(tokens, 1, i - 1) \o SubSeq(tokens, i + 1, Len(tokens))

\* C11: once parsed, an unset or empty list gives {create}; a list of
\* recognized tokens gives the union of their categories; an unrecognized
\* token has no effect: the result is the one of the list without it.
C11_DisplayResolution ==
    parsed =>
        LET tokens == displayEnv.val
        IN  /\ (~displayEnv.set \/ tokens = << >>)
                => display_flags = {DISPLAY_FLAG_CREATE}
            /\ (tokens # << >> /\ \A i \in 1..Len(tokens) : Recognized(tokens[i]))
                => display_flags =
                     UNION {TokenFlag(tokens[i], 1) : i \in 1..Len(tokens)}
            /\ \A i \in 1..Len(tokens) :
                  ~Recognized(tokens[i])
                      => display_flags = ParseDisplay(EnvVal(RemoveAt(tokens, i)))

(* ------------------------- the two locks ------------------------------ *)
\* The program counters at which a thread requests the registry lock.
RegistryRequests == {"gf_lock", "lock", "fin_lock", "h_lock"}
\* Thread t waits for the registry lock, held by thread u.
WaitsRegistry(t, u) ==
    Busy(t) /\ Top(t).pc \in RegistryRequests /\ gobject_list = u
\* Thread t waits for the output lock, held by thread u.
WaitsOutput(t, u) == Busy(t) /\ Top(t).pc = "out_lock" /\ output_mutex = u

\* C12: no thread requests the registry lock while it holds the output
\* lock, and no two threads each hold one of the two locks and wait for the
\* other.
C12_NoInvertedAcquisition ==
    /\ \A t \in Threads :
          ~(Busy(t) /\ Top(t).pc \in RegistryRequests /\ output_mutex = t)
    /\ \A t, u \in Threads :
          t # u => ~(WaitsRegistry(t, u) /\ WaitsOutput(u, t))

\* The threads inside a print sequence (GST_ERROR and print_trace), a
\* handler possibly running on top of it.
Printing == {t \in Threads : \E i \in 1..Len(stack[t]) : stack[t][i].pc = "print"}

\* C13: at most one thread at a time is inside a print sequence, so the
\* lines of two concurrent events never interleave.
C13_OutputSerialized == Cardinality(Printing) <= 1

(* ------------------ the tables and the display list ------------------- *)
\* Thread t takes the step of _object_finalized that records the
\* finalization.
RecordsFinalized(t) ==
    /\ At(t, {"mini_unref"}, "fin_body")
    /\ stack'[t] = SetPc(t, "fin_rm_added")[t]

\* The identities of the Removed-Delta after the finalization of object a
\* in a run that displays the creation category.
RemovedWhenDisplayed(a) ==
    IF HashLookup(added, a)
    THEN DOMAIN removed
    ELSE DOMAIN MapInsert(removed, a, NullName)

\* C14: the tables do not depend on the display list: every finalization
\* leaves the Removed-Delta that the same finalization leaves in a run
\* that displays the creation category.
C14_DisplayIndependent ==
    [][\A t \in Threads :
          RecordsFinalized(t) =>
              DOMAIN removed' = RemovedWhenDisplayed(Top(t).obj)]_vars

(* ----------------------- recording a creation twice ------------------- *)
\* Thread t takes the step that records a creation (the locked body of
\* g_object_new or new_mini_object) for an object already in the Live Set.
RecordsCreatedAgain(t) ==
    /\ At(t, {"new", "buf_new"}, "body")
    /\ stack'[t] = Pop(t)[t] /\ ~terminated'
    /\ HashLookup(objects, Top(t).obj)

\* C15: recording a creation for an identity that is already in the Live
\* Set changes none of the three tables and registers no second
\* finalization notifier.
C15_RecordCreatedIdempotent ==
    [][\A t \in Threads :
          RecordsCreatedAgain(t) =>
              /\ regVars' = regVars
              /\ heap'[Top(t).obj].weak = heap[Top(t).obj].weak]_vars

(* ------------------------- the tables exist --------------------------- *)
\* The program counters at which the next step reads or writes a table.
TableUses == {"body", "fin_body", "fin_rm_added", "dump", "clear"}

\* C16: no insertion, lookup, removal, dump or checkpoint operates on a
\* table that was not created, and no signal handler is installed before
\* the tables exist.
C16_TablesBeforeUse ==
    /\ \A t \in Threads : \A i \in 1..Len(stack[t]) :
          stack[t][i].pc \in TableUses => tables
    /\ (\E sig \in Sigs : disp[sig] # "dfl") => tables

(* ------------- display_filter alone: concurrent first calls ----------- *)
\* display_filter statement by statement, called for the creation category
\* by new_mini_object (under the registry lock) and by
\* gst_mini_object_init (under no lock); what the callers do besides is
\* left out. The frame's obj field is the loop index i.
DisplayInputs ==
    {Unset, EnvVal(<<"create">>), EnvVal(<<"backtrace", "create">>)}

DisplayInit ==
    /\ displayEnv \in DisplayInputs
    /\ filterEnv = Unset
    /\ Loaded

\* A thread enters new_mini_object or gst_mini_object_init.
DisplayCall(t) ==
    /\ Idle(t) /\ calls < MaxCalls
    /\ \E op \in {"buf_new", "mini_init"} :
          stack' = Push(t, Frame(op, IF op = "buf_new" THEN "df_lock"
                                                       ELSE "df_test",
                                 1, "none"))
    /\ calls' = calls + 1
    /\ UNCHANGED << envVars, memoVars, output_mutex, brk, heap, gobject_list,
                    handle, tables, regVars, disp, terminated, signals,
                    histVars, freed >>

\* G_LOCK (gobject_list) in new_mini_object
DisplayCallerLock(t) ==
    /\ At(t, {"buf_new"}, "df_lock")
    /\ gobject_list = NoThread
    /\ gobject_list' = t
    /\ stack' = SetPc(t, "df_test")
    /\ UNCHANGED << envVars, memoVars, output_mutex, brk, heap, handle, tables,
                    regVars, disp, terminated, calls, signals, histVars, freed >>

\* if (!parsed), g_getenv and if (display != NULL)
DisplayTest(t) ==
    /\ At(t, {"buf_new", "mini_init"}, "df_test")
    /\ stack' = SetPc(t, IF parsed THEN "df_return"
                         ELSE IF displayEnv.set THEN "df_clear"
                         ELSE "df_mark")
    /\ UNCHANGED << envVars, memoVars, output_mutex, brk, heap, gobject_list,
                    handle, tables, regVars, disp, terminated, calls, signals,
                    histVars, freed >>

\* g_strsplit and if (len > 0) display_flags = 0
DisplayClear(t) ==
    /\ At(t, {"buf_new", "mini_init"}, "df_clear")
    /\ display_flags' = IF Len(displayEnv.val) > 0 THEN {} ELSE display_flags
    /\ stack' = SetPc(t, "df_token")
    /\ UNCHANGED << envVars, parsed, answers, output_mutex, brk, heap,
                    gobject_list, handle, tables, regVars, disp, terminated,
                    calls, signals, histVars, freed >>

\* One round of the loop over the tokens: display_flags |= flag of the
\* token; after the last round, out of the loop.
DisplayToken(t) ==
    /\ At(t, {"buf_new", "mini_init"}, "df_token")
    /\ LET i == Top(t).obj
       IN  IF i <= Len(displayEnv.val)
           THEN /\ display_flags' =
                      display_flags \cup TokenFlag(displayEnv.val[i], 1)
                /\ stack' = SetTop(t, [Top(t) EXCEPT !.obj = i + 1])
           ELSE /\ display_flags' = display_flags
                /\ stack' = SetPc(t, "df_mark")
    /\ UNCHANGED << envVars, parsed, answers, output_mutex, brk, heap,
                    gobject_list, handle, tables, regVars, disp, terminated,
                    calls, signals, histVars, freed >>

\* parsed = TRUE
DisplayMark(t) ==
    /\ At(t, {"buf_new", "mini_init"}, "df_mark")
    /\ parsed' = TRUE
    /\ stack' = SetPc(t, "df_return")
    /\ UNCHANGED << envVars, display_flags, answers, output_mutex, brk, heap,
                    gobject_list, handle, tables, regVars, disp, terminated,
                    calls, signals, histVars, freed >>

\* return (display_flags & flags) ? TRUE : FALSE; the caller goes on and
\* new_mini_object ends with G_UNLOCK (gobject_list).
DisplayReturn(t) ==
    /\ At(t, {"buf_new", "mini_init"}, "df_return")
    /\ answers' = answers \cup
          {<< DISPLAY_FLAG_CREATE, DISPLAY_FLAG_CREATE \in display_flags >>}
    /\ gobject_list' = IF gobject_list = t THEN NoThread ELSE gobject_list
    /\ stack' = Pop(t)
    /\ UNCHANGED << envVars, parsed, display_flags, output_mutex, brk, heap,
                    handle, tables, regVars, disp, terminated, calls, signals,
                    histVars, freed >>

DisplayNext ==
    \E t \in Threads :
        \/ DisplayCall(t) \/ DisplayCallerLock(t) \/ DisplayTest(t)
        \/ DisplayClear(t) \/ DisplayToken(t) \/ DisplayMark(t)
        \/ DisplayReturn(t)

DisplaySpec == DisplayInit /\ [][DisplayNext]_vars

\* C17: once a call of display_filter has returned, the resolved set of
\* categories never changes again.
C17_ResolvedOnce == [][answers # {} => display_flags' = display_flags]_vars

(* --------------------- the tables and their lock ---------------------- *)
\* C18: every read or write of the three tables that can happen is made by
\* the thread that holds the registry lock: a thread about to read or
\* write a table holds the lock, and a step that changes a table is a
\* step of the holder.
C18_TablesUnderLock ==
    /\ [](\A t \in Threads : \A i \in 1..Len(stack[t]) :
            stack[t][i].pc \in TableUses => gobject_list = t)
    /\ [][(regVars' # regVars /\ ~terminated') =>
             /\ gobject_list # NoThread
             /\ stack'[gobject_list] # stack[gobject_list]]_vars

\* g_object_new is about to look its object up under the lock while
\* another thread is inside gst_mini_object_init, which takes no lock.
C18_Witness ==
    \E t, u \in Threads :
        /\ t # u /\ tables
        /\ At(t, {"new"}, "body") /\ gobject_list = t
        /\ At(u, {"mini_init"}, "hook")

(* ------------------ the checkpoint and freed objects ----------------- *)
\* C19: the checkpoint reports the entries of the Removed-Delta without
\* reading the objects: none of the objects it has read is an entry of the
\* Removed-Delta it has reported.
C19_RemovedNotRead ==
    \A t \in Threads :
        InFrame(t, {"usr2"}, "clear") =>
            ckpt.read \cap DOMAIN ckpt.removed = {}

(* --------------------------- address reuse ---------------------------- *)
\* Thread t takes the step that ends the recording of a creation (the
\* locked body of g_object_new or new_mini_object) for an object at an
\* address where an object has been freed before.
RecordsReused(t) ==
    /\ At(t, {"new", "buf_new"}, "body")
    /\ stack'[t] = Pop(t)[t] /\ ~terminated'
    /\ Top(t).obj \in freed

\* C20: when an address is reused, the finalization of the old object has
\* left the Live Set and the Added-Delta before the address is free again,
\* the new object is recorded as live and added, and an entry leaves the
\* Live Set only for an object that is being finalized.
C20_AddressReuse ==
    /\ [](\A a \in Addrs :
            heap[a].kind = "free" => a \notin objects \cup added)
    /\ [][\A t \in Threads :
             RecordsReused(t) =>
                 Top(t).obj \in objects' /\ Top(t).obj \in added']_vars
    /\ [][\A a \in objects \ objects' :
             ~terminated' => heap[a].rc = 0]_vars
====
